---- MODULE Spec2Model ----
(***************************************************************************)
(* Model of scripts/modules_generator/docs_scraper.py: the signature       *)
(* parser, the namespace classifier, the name transformer and the          *)
(* refinement / deduplication stages of the ReaScript documentation        *)
(* scraper.  Python strings are TLA+ strings; a character is a string of   *)
(* length one.  Python lists are sequences, a dict is the sequence of its  *)
(* items in insertion order, None is the model value None.                 *)
(***************************************************************************)
EXTENDS Naturals, Sequences, FiniteSets, TLC

VARIABLES
    soup,           \* the parsed HTML document: the function_definition entries
    functions,      \* list(iter_lua_functions(soup)): the ReaFunc objects, by identity
    by_name_space,  \* result of group_functions_by_name_space (items of the dict)
    refined,        \* result of refine_functions
    deduped,        \* result of dedupe_functions
    pc,             \* position of get_functions_from_docs / of the function under test
    error,          \* the exception that ended the run, or None
    text_in,        \* argument of the pure function under test
    text_out,       \* the results of to_snake, in call order
    yielded,        \* what iter_types_and_names yielded, and the exception that ended it
    the_type,       \* the ReaType object whose default_value is read and assigned
    calls           \* the reads and assignments made on the_type, in call order

vars ==
    <<soup, functions, by_name_space, refined, deduped, pc, error, text_in, text_out,
      yielded, the_type, calls>>

None == "<None>"
\* an attribute that holds a list or None
NoList == [is_none |-> TRUE, items |-> <<>>]
List(items) == [is_none |-> FALSE, items |-> items]

(***************************************************************************)
(* Bounds of the model.                                                    *)
(***************************************************************************)
MaxSnakeLen == 4
MaxTokens == 3
MaxFuncs == 3

(***************************************************************************)
(* Python str primitives.                                                  *)
(***************************************************************************)
UpperChars == "ABCDEFGHIJKLMNOPQRSTUVWXYZ"
LowerChars == "abcdefghijklmnopqrstuvwxyz"
DigitChars == "0123456789"
\* the ASCII characters the model uses, in code point order
AsciiChars == " (),.0123456789:=ABCDEFGHIJKLMNOPQRSTUVWXYZ_abcdefghijklmnopqrstuvwxyz~"

Ch(s, i) == SubSeq(s, i, i)
CharsOf(s) == {Ch(s, i) : i \in 1..Len(s)}
Upper == CharsOf(UpperChars)
Lower == CharsOf(LowerChars)
Digit == CharsOf(DigitChars)
WordChar == Upper \cup Lower \cup Digit \cup {"_"}

IndexIn(chars, c) == CHOOSE i \in 1..Len(chars) : Ch(chars, i) = c
Ord(c) == IndexIn(AsciiChars, c)

lower_char(c) == IF c \in Upper THEN Ch(LowerChars, IndexIn(UpperChars, c)) ELSE c

RECURSIVE str_lower(_)
str_lower(s) == IF s = "" THEN "" ELSE lower_char(Ch(s, 1)) \o str_lower(Tail(s))

startswith(s, p) == Len(p) <= Len(s) /\ SubSeq(s, 1, Len(p)) = p
endswith(s, p) == Len(p) <= Len(s) /\ SubSeq(s, Len(s) - Len(p) + 1, Len(s)) = p
RECURSIVE find_from(_, _, _)
\* the first position at or after i where sub occurs in s, 0 when there is none
find_from(s, sub, i) ==
    IF i + Len(sub) - 1 > Len(s) THEN 0
    ELSE IF SubSeq(s, i, i + Len(sub) - 1) = sub THEN i
    ELSE find_from(s, sub, i + 1)

\* s.find(sub) + 1: 0 when absent, else the 1-based index
str_find(s, sub) == find_from(s, sub, 1)
\* the Python test: sub in s
str_in(sub, s) == str_find(s, sub) # 0

RECURSIVE str_replace(_, _, _)
\* s.replace(old, new): every non-overlapping occurrence, leftmost first
str_replace(s, old, new) ==
    IF old = "" THEN
        IF s = "" THEN new ELSE new \o Ch(s, 1) \o str_replace(Tail(s), old, new)
    ELSE LET i == str_find(s, old) IN
        IF i = 0 THEN s
        ELSE SubSeq(s, 1, i - 1) \o new
                \o str_replace(SubSeq(s, i + Len(old), Len(s)), old, new)

RECURSIVE str_less(_, _)
\* a < b on str: lexicographic by code point
str_less(a, b) ==
    IF b = "" THEN FALSE
    ELSE IF a = "" THEN TRUE
    ELSE IF Ch(a, 1) = Ch(b, 1) THEN str_less(Tail(a), Tail(b))
    ELSE Ord(Ch(a, 1)) < Ord(Ch(b, 1))

\* length of the longest prefix of s[i..] made of characters of class
RECURSIVE run_length(_, _, _)
run_length(s, i, class) ==
    IF i <= Len(s) /\ Ch(s, i) \in class THEN 1 + run_length(s, i + 1, class) ELSE 0

(***************************************************************************)
(* to_snake                                                                *)
(***************************************************************************)
\* length of group 1 in the match of ([A-Z]+)([A-Z][a-z]) at position i, 0 when
\* there is none; run is the length of the run of capitals at i: the greedy
\* [A-Z]+ gives back its last letter, and a lower-case letter must follow the run
snake_match1_in_run(s, i, run) ==
    IF run >= 2 /\ i + run <= Len(s) /\ Ch(s, i + run) \in Lower THEN run - 1 ELSE 0

snake_match1(s, i) == snake_match1_in_run(s, i, run_length(s, i, Upper))

RECURSIVE snake_sub1(_, _)
RECURSIVE snake_sub1_at(_, _, _)
\* re.sub(r"([A-Z]+)([A-Z][a-z])", r"\1_\2", s), scanning from position i
snake_sub1(s, i) == IF i > Len(s) THEN "" ELSE snake_sub1_at(s, i, snake_match1(s, i))
\* m is the length of group 1 of the match at i
snake_sub1_at(s, i, m) ==
    IF m = 0 THEN Ch(s, i) \o snake_sub1(s, i + 1)
    ELSE SubSeq(s, i, i + m - 1) \o "_" \o SubSeq(s, i + m, i + m + 1)
            \o snake_sub1(s, i + m + 2)

RECURSIVE snake_sub2(_, _)
\* re.sub(r"([a-z\d])([A-Z])", r"\1_\2", s), scanning from position i
RECURSIVE snake_sub2_digit(_, _)
\* to_snake with the digit moved to the second group: ([a-z])([A-Z\d])
snake_sub2_digit(s, i) ==
    IF i > Len(s) THEN ""
    ELSE IF /\ i + 1 <= Len(s)
            /\ Ch(s, i) \in Lower
            /\ Ch(s, i + 1) \in Upper \cup Digit
    THEN Ch(s, i) \o "_" \o Ch(s, i + 1) \o snake_sub2_digit(s, i + 2)
    ELSE Ch(s, i) \o snake_sub2_digit(s, i + 1)

snake_sub2(s, i) ==
    IF i > Len(s) THEN ""
    ELSE IF /\ i + 1 <= Len(s)
            /\ Ch(s, i) \in Lower \cup Digit
            /\ Ch(s, i + 1) \in Upper
    THEN Ch(s, i) \o "_" \o Ch(s, i + 1) \o snake_sub2(s, i + 2)
    ELSE Ch(s, i) \o snake_sub2(s, i + 1)

to_snake(s) == str_lower(snake_sub2(snake_sub1(s, 1), 1))

\* s.split(sep): the pieces between the occurrences of sep, empty ones included
RECURSIVE str_split(_, _)
str_split(s, sep) ==
    LET i == str_find(s, sep) IN
        IF i = 0 THEN <<s>>
        ELSE <<SubSeq(s, 1, i - 1)>> \o str_split(SubSeq(s, i + Len(sep), Len(s)), sep)

\* s.split(sep, maxsplit=1)
str_split1(s, sep) ==
    LET i == str_find(s, sep) IN
        IF i = 0 THEN <<s>>
        ELSE <<SubSeq(s, 1, i - 1), SubSeq(s, i + Len(sep), Len(s))>>

RECURSIVE str_strip_left(_)
str_strip_left(s) == IF s # "" /\ Ch(s, 1) = " " THEN str_strip_left(Tail(s)) ELSE s
RECURSIVE str_strip_right(_)
str_strip_right(s) ==
    IF s # "" /\ Ch(s, Len(s)) = " " THEN str_strip_right(SubSeq(s, 1, Len(s) - 1)) ELSE s
\* s.strip()
str_strip(s) == str_strip_right(str_strip_left(s))

RECURSIVE str_join(_)
\* "".join(list)
str_join(list) == IF list = <<>> THEN "" ELSE Head(list) \o str_join(Tail(list))

\* [x for x in list if x]
NonEmpty(list) == SelectSeq(list, LAMBDA x : x # "")

(***************************************************************************)
(* Tables imported from the package (modules_generator/__init__.py).       *)
(***************************************************************************)
\* the opaque handle types of the vendor API
REAPER_TYPES ==
    <<"ReaProject", "MediaItem", "MediaItemTake", "MediaTrack", "TrackEnvelope">>

\* the reserved words of the destination language
LUA_KEYWORDS ==
    {"and", "break", "do", "else", "elseif", "end", "false", "for", "function",
     "goto", "if", "in", "local", "nil", "not", "or", "repeat", "return", "then",
     "true", "until", "while"}

SeqRange(q) == {q[i] : i \in 1..Len(q)}

(***************************************************************************)
(* ReaType and the type / name tokenizer                                   *)
(***************************************************************************)
\* the dataclass constructor with its defaults
ReaType(reascript_type, name, is_optional) ==
    [reascript_type |-> reascript_type, name |-> name, is_optional |-> is_optional,
     description |-> None, is_pointer |-> FALSE, default_value |-> None]

\* ReaType.is_reaper_type
is_reaper_type(self) == self.reascript_type \in SeqRange(REAPER_TYPES)

\* ReaType.lua_type: the type of the value in the destination language
lua_type(self) ==
    IF is_reaper_type(self) THEN "userdata"
    ELSE IF self.reascript_type \in {"integer", "double", "float"} THEN "number"
    ELSE IF self.reascript_type = "boolean" THEN "boolean"
    ELSE IF self.reascript_type \in {"string", "str"} THEN "string"
    ELSE self.reascript_type

\* the getter of ReaType.default_value without the test for None: the if chain
\* runs at every read
default_value_recomputed(self) ==
    IF self.reascript_type = "boolean" THEN [self EXCEPT !.default_value = "false"]
    ELSE IF self.reascript_type = "number" THEN [self EXCEPT !.default_value = "0"]
    ELSE IF self.reascript_type = "string" THEN [self EXCEPT !.default_value = "\"\""]
    ELSE [self EXCEPT !.default_value = "nil"]

\* the object after the getter of ReaType.default_value ran: the if chain on
\* reascript_type fills an empty _default_value
default_value_stored(self) ==
    IF self.default_value = None
    THEN IF self.reascript_type = "boolean" THEN [self EXCEPT !.default_value = "false"]
         ELSE IF self.reascript_type = "number" THEN [self EXCEPT !.default_value = "0"]
         ELSE IF self.reascript_type = "string" THEN [self EXCEPT !.default_value = "\"\""]
         ELSE [self EXCEPT !.default_value = "nil"]
    ELSE self

\* what the getter of ReaType.default_value returns, stored being the object
\* as the getter left it
default_value(stored) == stored.default_value

\* the setter of ReaType.default_value
default_value_setter(self, value) == [self EXCEPT !.default_value = value]

\* name edited by the first matching rule of the elif chain (name is not empty)
sanitize_affix(name) ==
    IF endswith(name, "idx") /\ name # "idx" THEN str_replace(name, "idx", "_idx")
    ELSE IF endswith(name, "name") /\ name # "name" THEN str_replace(name, "name", "_name")
    ELSE IF endswith(name, "type") /\ name # "type" THEN str_replace(name, "type", "_type")
    ELSE IF endswith(name, "val") /\ name # "val" THEN str_replace(name, "val", "_val")
    ELSE IF endswith(name, "pos") /\ name # "pos" THEN str_replace(name, "pos", "_pos")
    ELSE IF startswith(name, "is") THEN str_replace(name, "is", "is_")
    ELSE IF startswith(name, "swing") /\ name # "swing" THEN str_replace(name, "swing", "swing_")
    ELSE IF startswith(name, "nudge") /\ name # "nudge" THEN str_replace(name, "nudge", "nudge_")
    ELSE IF startswith(name, "timesig") /\ name # "timesig"
        THEN str_replace(name, "timesig", "time_sig")
    ELSE IF name = "guid_guid" THEN "guid"
    ELSE name

\* if "__" in name: name = name.replace("__", "_")
sanitize_inner_underscores(name) ==
    IF str_in("__", name) THEN str_replace(name, "__", "_") ELSE name

\* the two clean-ups of double underscores, in the order of the code
sanitize_underscores(name) ==
    sanitize_inner_underscores(
        IF startswith(name, "__") THEN str_replace(name, "__", "") ELSE name)

\* if name in LUA_KEYWORDS: name = f"{name}_"
keyword_suffix(name) == IF name \in LUA_KEYWORDS THEN name \o "_" ELSE name

\* the body of `if name:`
sanitize_edits(name) ==
    IF name # None /\ name # ""
    THEN sanitize_underscores(sanitize_affix(str_replace(name, ".", "")))
    ELSE name

\* sanitize_name without the call of to_snake
sanitize_name_raw(parts) ==
    sanitize_edits(keyword_suffix(IF Len(parts) > 1 THEN parts[2] ELSE None))

sanitize_name(parts) ==
    sanitize_edits(keyword_suffix(IF Len(parts) > 1 THEN to_snake(parts[2]) ELSE None))

get_type(type_) == IF type_ = "MediaItem_Take" THEN "MediaItemTake" ELSE type_

\* a generator's outcome: the items it yielded, and the exception that ended it
Yields(items) == [items |-> items, raised |-> None]
Raises(exception) == [items |-> <<>>, raised |-> exception]
\* item is yielded, then the generator goes on as in outcome
YieldThen(item, outcome) == [outcome EXCEPT !.items = <<item>> \o @]

\* a call's outcome: the value it returned, or the exception it raised
Returns(value) == [raised |-> None, value |-> value]
Fails(exception) == [raised |-> exception]

\* the ReaType yielded for the tokens parts, name being sanitize_name(parts);
\* parts[0] and parts[2] raise IndexError when the token is missing
type_and_name(parts, name) ==
    IF parts = <<>> THEN Fails("IndexError")
    ELSE IF parts[1] = "optional" THEN
        IF Len(parts) < 3 THEN Fails("IndexError")
        ELSE Returns(ReaType(parts[3], name, TRUE))
    ELSE IF Len(parts) = 1 THEN Returns(ReaType(get_type(parts[1]), None, FALSE))
    ELSE Returns(ReaType(get_type(parts[1]), name, FALSE))

type_and_name_of_parts(parts) == type_and_name(parts, sanitize_name(parts))

\* one iteration of the loop, for a value that is not empty
types_and_names_step(value) == type_and_name_of_parts(NonEmpty(str_split(value, " ")))

RECURSIVE iter_types_and_names(_)
RECURSIVE types_and_names_from(_, _)
\* the items the generator yields and the exception that ends it, if any;
\* an empty value ends the generator
iter_types_and_names(types_and_names) ==
    IF types_and_names = <<>> \/ Head(types_and_names) = "" THEN Yields(<<>>)
    ELSE types_and_names_from(types_and_names_step(Head(types_and_names)),
                              Tail(types_and_names))
\* step is the outcome for the first value, later are the values after it
types_and_names_from(step, later) ==
    IF step.raised # None THEN Raises(step.raised)
    ELSE YieldThen(step.value, iter_types_and_names(later))

(***************************************************************************)
(* The signature parser                                                    *)
(***************************************************************************)
FALSE_POSITIVE_NAMESPACES ==
    {"GetEnvelopeInfo", "GetMediaItem", "GetMediaItemInfo", "GetMediaItemTake",
     "GetMediaItemTakeInfo", "GetMediaTrackInfo", "GetSet", "GetSetAutomationItemInfo",
     "GetSetEnvelopeInfo", "GetSetMediaItemInfo", "GetSetMediaItemTakeInfo",
     "GetSetMediaTrackInfo", "GetSetProjectInfo", "GetSetTrackSendInfo",
     "GetTrackSendInfo", "SetMediaItemInfo", "SetMediaItemTake", "SetMediaItemTakeInfo",
     "SetMediaTrackInfo", "SetTrackSendInfo", "file", "format", "get", "image", "kbd",
     "my", "parse", "reduce", "relative", "resolve", "time"}

REAPER_NAMESPACES ==
    {"Audio", "Dock", "Help", "Loop", "Main", "Master", "Menu", "Resample", "Splash",
     "ThemeLayout", "TimeMap", "Undo"}

\* whether "(" stands at position open of part and a ")" follows it
opens_at(part, open) ==
    /\ open <= Len(part)
    /\ Ch(part, open) = "("
    /\ str_in(")", SubSeq(part, open + 1, Len(part)))

\* the position after the blanks that follow the word of length w at position i
after_blanks(s, i, w) == i + w + run_length(s, i + w, {" "})

\* re.match(r"\w+\s*\(\s*[^)]*\s*\)", part): a word, blanks, "(", anything, ")"
signature_matches(part) ==
    /\ run_length(part, 1, WordChar) >= 1
    /\ opens_at(part, after_blanks(part, 1, run_length(part, 1, WordChar)))

\* the first part that matches, or the ValueError
first_signature(hits) == IF hits = <<>> THEN Fails("ValueError") ELSE Returns(hits[1])
get_function_signature(parts) == first_signature(SelectSeq(parts, signature_matches))

\* group 1 of re.search(r"\(([^)]*)\)", signature), split on commas: open is the
\* position of the first "(", rest the text after it
arguments_after(open, rest) ==
    IF open = 0 \/ str_find(rest, ")") = 0 THEN Fails("ValueError")
    ELSE Returns(str_split(SubSeq(rest, 1, str_find(rest, ")") - 1), ","))

arguments_from(signature, open) ==
    arguments_after(open, SubSeq(signature, open + 1, Len(signature)))

get_arguments(signature) == arguments_from(signature, str_find(signature, "("))

\* the positions where re.search(r"\b\w+(?=\s*\()", signature) can match:
\* the start of a word that is followed by blanks and "("
function_name_starts(signature) ==
    {i \in 1..Len(signature) :
        /\ Ch(signature, i) \in WordChar
        /\ (i = 1 \/ Ch(signature, i - 1) \notin WordChar)
        /\ after_blanks(signature, i, run_length(signature, i, WordChar)) <= Len(signature)
        /\ Ch(signature, after_blanks(signature, i, run_length(signature, i, WordChar)))
                = "("}

SetMin(S) == CHOOSE x \in S : \A y \in S : x <= y

\* the word at the leftmost of the positions starts
leftmost_name(signature, starts) ==
    IF starts = {} THEN Fails("ValueError")
    ELSE Returns(SubSeq(signature, SetMin(starts),
                        SetMin(starts) + run_length(signature, SetMin(starts), WordChar) - 1))

get_function_name(signature) == leftmost_name(signature, function_name_starts(signature))

\* get_fn_name_space without the test of FALSE_POSITIVE_NAMESPACES
checked_name_space_any(fn_namespace) ==
    IF fn_namespace # None /\ fn_namespace # "" THEN fn_namespace ELSE None

\* fn_namespace is fn_name_space_parts[0], or None for a name without underscore
checked_name_space(fn_namespace) ==
    IF fn_namespace # None /\ fn_namespace # ""
          /\ fn_namespace \notin FALSE_POSITIVE_NAMESPACES
    THEN fn_namespace
    ELSE None

get_fn_name_space(fn_name_space_parts) ==
    checked_name_space(IF Len(fn_name_space_parts) > 1 THEN fn_name_space_parts[1] ELSE None)

MapSeq(f(_), q) == [i \in 1..Len(q) |-> f(q[i])]

\* part.replace("=", "").strip()
clean_return_value(part) == str_strip(str_replace(part, "=", ""))

\* list(iter_types_and_names(...)): the list, unless the generator raised
list_of(outcome) ==
    IF outcome.raised # None THEN Fails(outcome.raised) ELSE Returns(List(outcome.items))

\* values is a str or None; the result is a list or None
parse_return_values(values) ==
    IF values # None /\ values # ""
    THEN list_of(iter_types_and_names(MapSeq(clean_return_value, str_split(values, ","))))
    ELSE Returns(NoList)

\* the two spellings parse_lua_function canonicalizes
canonical_name_space(fn_name_space) ==
    IF fn_name_space = "TimeMap2" THEN "TimeMap"
    ELSE IF fn_name_space = "midi" THEN "MIDI"
    ELSE fn_name_space

\* the dict returned; name and arguments are outcomes, evaluated in this order
lua_func_dict(signature, arguments, name, return_values) ==
    IF arguments.raised # None THEN Fails(arguments.raised)
    ELSE IF name.raised # None THEN Fails(name.raised)
    ELSE Returns([signature |-> signature,
                  reascript_name |-> name.value,
                  fn_name_space |->
                        canonical_name_space(get_fn_name_space(str_split1(name.value, "_"))),
                  arguments |-> arguments.value.items,
                  return_values |-> return_values])

\* list(iter_types_and_names(get_arguments(signature)))
list_of_arguments(arguments) ==
    IF arguments.raised # None THEN Fails(arguments.raised)
    ELSE list_of(iter_types_and_names(arguments.value))

\* the statements after the signature was found
parse_signature(signature, return_values) ==
    lua_func_dict(signature,
                  list_of_arguments(get_arguments(signature)),
                  get_function_name(signature),
                  return_values)

\* return_values and signature are the outcomes of the first two calls
parse_from(return_values, signature) ==
    IF return_values.raised # None THEN Fails(return_values.raised)
    ELSE IF signature.raised # None THEN Fails(signature.raised)
    ELSE parse_signature(signature.value, return_values.value.items)

parse_parts(parts) ==
    parse_from(parse_return_values(IF parts[1] # "" THEN parts[1] ELSE None),
               get_function_signature(parts))

\* the dict parse_lua_function returns, or the exception it raises
parse_lua_function(text) == parse_parts(str_split1(text, "reaper."))

(***************************************************************************)
(* Constants embedded in the documentation, and the document iterator      *)
(***************************************************************************)
\* stands for U+00A0 (no-break space) in the documentation text
NBSP == "~"

\* re.match(r"^[A-Z]+(?:_[A-Z]+)*$", s)
constant_name_matches(s) ==
    /\ s # ""
    /\ CharsOf(s) \subseteq Upper \cup {"_"}
    /\ Ch(s, 1) \in Upper
    /\ Ch(s, Len(s)) \in Upper
    /\ ~str_in("__", s)

\* the first of REAPER_TYPES that occurs in the text, in a list of at most one
first_rea_type(hits) == IF hits = <<>> THEN <<>> ELSE <<hits[1]>>
rea_type_in(text) ==
    first_rea_type(SelectSeq(REAPER_TYPES, LAMBDA rea_type : str_in(rea_type, text)))

\* rea_types is rea_type_in(type_)
lua_type_or(rea_types, type_) ==
    IF rea_types # <<>> THEN rea_types[1]
    ELSE IF startswith(type_, "int") THEN "number"
    ELSE IF startswith(type_, "bool") THEN "boolean"
    ELSE IF startswith(type_, "char") THEN "string"
    ELSE IF startswith(type_, "str") THEN "string"
    ELSE type_

convert_to_lua_type(type_) == lua_type_or(rea_type_in(type_), type_)

\* rea_types is rea_type_in(description)
inferred_type_or(rea_types, description) ==
    IF rea_types # <<>> THEN rea_types[1]
    ELSE IF str_in("number", description) THEN "number"
    ELSE IF str_in("string", description) THEN "string"
    ELSE IF str_in("boolean", description) THEN "boolean"
    ELSE "any"

infer_type_from_description(description) ==
    inferred_type_or(rea_type_in(description), description)

\* the colon-separated, stripped, non-empty parts of one child of the paragraph
constant_parts(child) == NonEmpty(MapSeq(str_strip, str_split(str_strip(child), ":")))

\* if len(parts) > 1 and re.match(pattern, parts[0])
names_constant(parts) == Len(parts) > 1 /\ constant_name_matches(parts[1])
is_constant_line(child) == names_constant(constant_parts(child))

\* the ReaType appended for the parts of a constant line
constant_from(parts) ==
    [ReaType(IF Len(parts) = 2 THEN infer_type_from_description(parts[2])
             ELSE convert_to_lua_type(parts[2]),
             parts[1], FALSE)
        EXCEPT !.description = IF Len(parts) = 3 THEN parts[3]
                               ELSE IF Len(parts) = 2 THEN parts[2]
                               ELSE str_join(Tail(parts))]

constant_of(child) == constant_from(constant_parts(child))

\* docs_soup is the list of the children's texts; the result is (docs, constants)
parse_constants_from_docs(docs_soup) ==
    [docs |-> str_join(NonEmpty(MapSeq(str_strip,
                SelectSeq(docs_soup, LAMBDA child : ~is_constant_line(child))))),
     constants |-> MapSeq(constant_of, SelectSeq(docs_soup, is_constant_line))]

ReaFunc(lua_func, docs, constants) ==
    [signature |-> lua_func.signature,
     reascript_name |-> lua_func.reascript_name,
     fn_name_space |-> lua_func.fn_name_space,
     arguments |-> lua_func.arguments,
     return_values |-> lua_func.return_values,
     docs |-> docs,
     reawrap_name |-> None,
     constants |-> constants]

\* docstr, constants = parse_constants_from_docs(docs)
with_constants(lua_func, parsed) == ReaFunc(lua_func, parsed.docs, List(parsed.constants))

\* the ReaFunc yielded for an entry with the paragraph p, once l_func is parsed
documented(lua_func, p) ==
    IF str_in("Info", lua_func.reascript_name) /\ ~p.is_none
    THEN with_constants(lua_func, parse_constants_from_docs(p.items))
    ELSE ReaFunc(lua_func,
                 IF p.is_none THEN None ELSE str_replace(str_join(p.items), NBSP, ""),
                 NoList)

\* lua_func is the outcome of parse_lua_function(l_func.text)
top_level_function(lua_func, p) ==
    IF lua_func.raised # None THEN Fails(lua_func.raised)
    ELSE Returns(documented(lua_func.value, p))

\* body of the first loop: the ReaFunc of one entry of section functions_all
lua_function_of(func) == top_level_function(parse_lua_function(func.l_func), func.p)

\* the try / except of the second loop: a ValueError is logged, the entry skipped
built_in_function(lua_func, p) ==
    IF lua_func.raised = "ValueError" THEN [raised |-> None, skipped |-> TRUE]
    ELSE IF lua_func.raised # None THEN [raised |-> lua_func.raised, skipped |-> FALSE]
    ELSE [raised |-> None, skipped |-> FALSE,
          value |-> ReaFunc([lua_func.value EXCEPT !.fn_name_space = "built_in"],
                            IF p.is_none THEN None ELSE str_join(p.items),
                            NoList)]

\* body of the second loop: one entry of section lua
built_in_function_of(func) == built_in_function(parse_lua_function(func.l_func), func.p)

RECURSIVE iter_top_level(_)
RECURSIVE top_level_from(_, _)
\* the first loop over the entries
iter_top_level(entries) ==
    IF entries = <<>> THEN Yields(<<>>)
    ELSE top_level_from(lua_function_of(Head(entries)), Tail(entries))
\* the first loop with the try / except of the second: a failed entry is skipped
top_level_from_skipping(first, later) ==
    IF first.raised # None THEN iter_top_level(later)
    ELSE YieldThen(first.value, iter_top_level(later))

top_level_from(first, later) ==
    IF first.raised # None THEN Raises(first.raised)
    ELSE YieldThen(first.value, iter_top_level(later))

RECURSIVE iter_built_in(_)
RECURSIVE built_in_from(_, _)
\* the second loop over the entries
iter_built_in(entries) ==
    IF entries = <<>> THEN Yields(<<>>)
    ELSE built_in_from(built_in_function_of(Head(entries)), Tail(entries))
built_in_from(first, later) ==
    IF first.raised # None THEN Raises(first.raised)
    ELSE IF first.skipped THEN iter_built_in(later)
    ELSE YieldThen(first.value, iter_built_in(later))

\* outcome is what the generator did so far, more what it does next
YieldsThen(outcome, more) ==
    [items |-> outcome.items \o more.items, raised |-> more.raised]

\* top is the outcome of the first loop
then_built_in(top, document, built_in) ==
    IF top.raised # None \/ ~built_in THEN top
    ELSE YieldsThen(top, iter_built_in(document.lua))

\* what the generator yields, in order, and the exception that ends it, if any
iter_lua_functions(document, built_in) ==
    then_built_in(iter_top_level(document.functions_all), document, built_in)

(***************************************************************************)
(* The namespace classifier.  A table (dict of lists) is the sequence of   *)
(* its items [name_space, functions]; a list of functions holds the        *)
(* indexes of the ReaFunc objects in the list the parser returned, so that *)
(* the tables share the objects as the Python lists do.                    *)
(***************************************************************************)
\* the tuple of exceptions without its second name
track_fx_exceptions_delete_only == {"TrackFX_Delete"}
track_fx_exceptions == {"TrackFX_Delete", "TrackFX_GetCount"}
take_fx_exceptions == {"TakeFX_Delete", "TakeFX_GetCount"}

\* the chain with the test of the first argument type before the test of PCM
name_space_of_type_first(l_func) ==
    IF (l_func.fn_name_space = "TrackFX" \/ str_in("TrackFX", l_func.reascript_name))
        /\ l_func.reascript_name \notin track_fx_exceptions
    THEN "TrackFX"
    ELSE IF (l_func.fn_name_space = "TakeFX" \/ str_in("TakeFX", l_func.reascript_name))
        /\ l_func.reascript_name \notin take_fx_exceptions
    THEN "TakeFX"
    ELSE IF /\ l_func.arguments # <<>>
            /\ l_func.arguments[1].reascript_type \in SeqRange(REAPER_TYPES)
    THEN l_func.arguments[1].reascript_type
    ELSE IF \/ l_func.fn_name_space = "PCM"
            \/ /\ l_func.arguments # <<>>
               /\ l_func.arguments[1].reascript_type \in {"PCM_source", "PCM_sink"}
    THEN "PCM"
    ELSE IF l_func.fn_name_space \in REAPER_NAMESPACES \/ l_func.fn_name_space = None
    THEN "Reaper"
    ELSE l_func.fn_name_space

\* the namespace the if / elif chain of the loop body chooses for l_func
name_space_of(l_func) ==
    IF (l_func.fn_name_space = "TrackFX" \/ str_in("TrackFX", l_func.reascript_name))
        /\ l_func.reascript_name \notin track_fx_exceptions
    THEN "TrackFX"
    ELSE IF (l_func.fn_name_space = "TakeFX" \/ str_in("TakeFX", l_func.reascript_name))
        /\ l_func.reascript_name \notin take_fx_exceptions
    THEN "TakeFX"
    ELSE IF \/ l_func.fn_name_space = "PCM"
            \/ /\ l_func.arguments # <<>>
               /\ l_func.arguments[1].reascript_type \in {"PCM_source", "PCM_sink"}
    THEN "PCM"
    ELSE IF /\ l_func.arguments # <<>>
            /\ l_func.arguments[1].reascript_type \in SeqRange(REAPER_TYPES)
    THEN l_func.arguments[1].reascript_type
    ELSE IF l_func.fn_name_space \in REAPER_NAMESPACES \/ l_func.fn_name_space = None
    THEN "Reaper"
    ELSE l_func.fn_name_space

dict_keys(table) == {table[i].name_space : i \in 1..Len(table)}
dict_index(table, key) == CHOOSE i \in 1..Len(table) : table[i].name_space = key
dict_get(table, key) == table[dict_index(table, key)].functions
dict_item(key, funcs) == [name_space |-> key, functions |-> funcs]

\* the append moved into an else branch: the record that creates a key is lost
dict_append_else(table, key, l_func) ==
    IF key \in dict_keys(table)
    THEN [table EXCEPT ![dict_index(table, key)].functions = Append(@, l_func)]
    ELSE Append(table, dict_item(key, <<>>))

\* the append to the list created last, whatever the key
dict_append_last(table, key, l_func) ==
    IF key \in dict_keys(table)
    THEN [table EXCEPT ![Len(table)].functions = Append(@, l_func)]
    ELSE Append(table, dict_item(key, <<l_func>>))

\* by_name_space[namespace].append(l_func), the key being created when missing
dict_append(table, key, l_func) ==
    IF key \in dict_keys(table)
    THEN [table EXCEPT ![dict_index(table, key)].functions = Append(@, l_func)]
    ELSE Append(table, dict_item(key, <<l_func>>))

RECURSIVE group_loop(_, _, _)
\* the loop over functions[i..], table being by_name_space so far
group_loop(objects, i, table) ==
    IF i > Len(objects) THEN table
    ELSE group_loop(objects, i + 1, dict_append(table, name_space_of(objects[i]), i))

group_functions_by_name_space(objects) == group_loop(objects, 1, <<>>)

(***************************************************************************)
(* The name transformer                                                    *)
(***************************************************************************)
\* the exempt tokens without Undo
ns_special_cases_no_undo == {"MIDI", "Audio", "Menu", "Splash", "ThemeLayout"}

ns_special_cases == {"MIDI", "Undo", "Audio", "Menu", "Splash", "ThemeLayout"}

\* the override table without the entries of MediaItemTake and MediaTrack
functions_special_cases_fx_only(namespace, reawrap_name) ==
    IF namespace \in {"TakeFX", "TrackFX"} /\ reawrap_name = "get_fxguid" THEN "get_guid"
    ELSE IF namespace \in {"TakeFX", "TrackFX"} /\ reawrap_name = "get_fx_name" THEN "get_name"
    ELSE IF namespace \in {"TakeFX", "TrackFX"} /\ reawrap_name = "get_count"
        THEN "get_fx_count"
    ELSE IF namespace = "MediaItem" /\ reawrap_name = "add_take_to" THEN "add_take"
    ELSE IF namespace = "ReaProject" /\ reawrap_name = "get_project_name" THEN "get_name"
    ELSE reawrap_name

\* functions_special_cases.get(namespace, {...}).get(reawrap_name, reawrap_name)
functions_special_cases(namespace, reawrap_name) ==
    IF namespace \in {"TakeFX", "TrackFX"} /\ reawrap_name = "get_fxguid" THEN "get_guid"
    ELSE IF namespace \in {"TakeFX", "TrackFX"} /\ reawrap_name = "get_fx_name" THEN "get_name"
    ELSE IF namespace \in {"TakeFX", "TrackFX", "MediaItemTake", "MediaTrack"}
            /\ reawrap_name = "get_count" THEN "get_fx_count"
    ELSE IF namespace \in {"MediaItemTake", "MediaTrack"} /\ reawrap_name = "delete"
        THEN "delete_fx"
    ELSE IF namespace = "MediaItem" /\ reawrap_name = "add_take_to" THEN "add_take"
    ELSE IF namespace = "ReaProject" /\ reawrap_name = "get_project_name" THEN "get_name"
    ELSE reawrap_name

\* whether the raw token and the namespace are stripped out of the name
strips_name_space(namespace, fn_name_space, reascript_name) ==
    /\ \/ fn_name_space # None /\ fn_name_space # "" /\ str_in(fn_name_space, reascript_name)
       \/ str_in(namespace, reascript_name)
    /\ fn_name_space \notin ns_special_cases

\* the name without the raw token and the namespace, when they are stripped
stripped_name(namespace, fn_name_space, reascript_name) ==
    IF strips_name_space(namespace, fn_name_space, reascript_name)
    THEN str_replace(IF fn_name_space # None /\ fn_name_space # ""
                     THEN str_replace(reascript_name, fn_name_space, "")
                     ELSE reascript_name,
                     namespace, "")
    ELSE reascript_name

strip_leading_underscores(reawrap_name) ==
    IF startswith(reawrap_name, "__") THEN SubSeq(reawrap_name, 3, Len(reawrap_name))
    ELSE IF startswith(reawrap_name, "_") THEN SubSeq(reawrap_name, 2, Len(reawrap_name))
    ELSE reawrap_name

\* if "TimeMap2" in reascript_name: replace it
canonical_time_map(reascript_name) ==
    IF str_in("TimeMap2", reascript_name)
    THEN str_replace(reascript_name, "TimeMap2", "TimeMap")
    ELSE reascript_name

generate_reawrap_name(namespace, fn_name_space, reascript_name) ==
    functions_special_cases(
        namespace,
        keyword_suffix(to_snake(strip_leading_underscores(
            stripped_name(namespace, fn_name_space, canonical_time_map(reascript_name))))))

(***************************************************************************)
(* Refinement and deduplication.  Both stages assign to fields of the      *)
(* ReaFunc objects, so each returns the objects with the table.            *)
(***************************************************************************)
\* the sort key without .lower()
item_before_cased(a, b) == str_less(a.name_space, b.name_space)

\* key=lambda item: item[0].lower() orders a before b
item_before(a, b) == str_less(str_lower(a.name_space), str_lower(b.name_space))

\* first put into the sorted list rest, before the items that do not precede it
insert_sorted(first, rest) ==
    SelectSeq(rest, LAMBDA x : item_before(x, first))
        \o <<first>> \o SelectSeq(rest, LAMBDA x : ~item_before(x, first))

RECURSIVE sorted_items(_)
\* sorted(by_name_space.items(), key=...): stable, equal keys keep their order
sorted_items(items) ==
    IF items = <<>> THEN <<>>
    ELSE insert_sorted(Head(items), sorted_items(Tail(items)))

\* the state of a loop over one namespace: the objects, the names seen, the
\* functions appended to the list of the namespace
LoopState(objects, seen, kept) == [objects |-> objects, seen |-> seen, kept |-> kept]

\* the loop body with the function inserted at the head of the list
refine_function_prepend(f, reawrap_name, st) ==
    LoopState([st.objects EXCEPT ![f].reawrap_name = reawrap_name],
              st.seen \cup {reawrap_name},
              IF reawrap_name \notin st.seen THEN <<f>> \o st.kept ELSE st.kept)

\* the loop body with the name computed only for a function that has none
refine_function_named_once(f, reawrap_name, st) ==
    IF st.objects[f].reawrap_name = None
    THEN LoopState([st.objects EXCEPT ![f].reawrap_name = reawrap_name],
                   st.seen \cup {reawrap_name},
                   IF reawrap_name \notin st.seen THEN Append(st.kept, f) ELSE st.kept)
    ELSE LoopState(st.objects,
                   st.seen \cup {st.objects[f].reawrap_name},
                   IF st.objects[f].reawrap_name \notin st.seen
                   THEN Append(st.kept, f) ELSE st.kept)

\* the loop body with the documentation filters of dedupe_functions ahead of
\* the test of the names seen
refine_function_filtering(f, reawrap_name, st) ==
    IF str_in("deprecated", str_lower(st.objects[f].docs))
        \/ str_in("discouraged", str_lower(st.objects[f].docs))
    THEN LoopState([st.objects EXCEPT ![f].reawrap_name = reawrap_name], st.seen, st.kept)
    ELSE LoopState([st.objects EXCEPT ![f].reawrap_name = reawrap_name],
                   st.seen \cup {reawrap_name},
                   IF reawrap_name \notin st.seen THEN Append(st.kept, f) ELSE st.kept)

\* the loop body of refine_functions for the function at index f
refine_function(f, reawrap_name, st) ==
    LoopState([st.objects EXCEPT ![f].reawrap_name = reawrap_name],
              st.seen \cup {reawrap_name},
              IF reawrap_name \notin st.seen THEN Append(st.kept, f) ELSE st.kept)

RECURSIVE refine_name_space(_, _, _, _)
\* the inner loop over funcs[i..] of one namespace
refine_name_space(name_space, funcs, i, st) ==
    IF i > Len(funcs) THEN st
    ELSE refine_name_space(
            name_space, funcs, i + 1,
            refine_function(funcs[i],
                            generate_reawrap_name(name_space,
                                                  st.objects[funcs[i]].fn_name_space,
                                                  st.objects[funcs[i]].reascript_name),
                            st))

\* the table with the list of one namespace stored under its key
dict_store(table, key, funcs) ==
    IF key \in dict_keys(table)
    THEN [table EXCEPT ![dict_index(table, key)] = dict_item(key, funcs)]
    ELSE Append(table, dict_item(key, funcs))

\* the result of a stage: the objects as the stage left them, and its table
StageResult(objects, table) == [objects |-> objects, table |-> table]
stored(result, key, st) == StageResult(st.objects, dict_store(result.table, key, st.kept))

RECURSIVE refine_loop(_, _, _)
\* the outer loop over the sorted items[i..]; result holds refined so far
refine_loop(items, i, result) ==
    IF i > Len(items) THEN result
    ELSE refine_loop(items, i + 1,
            stored(result, items[i].name_space,
                   refine_name_space(items[i].name_space, items[i].functions, 1,
                                     LoopState(result.objects, {}, <<>>))))

refine_functions(table, objects) ==
    refine_loop(sorted_items(table), 1, StageResult(objects, <<>>))

\* func.docs and word in func.docs.lower()
docs_mention(func, word) ==
    func.docs # None /\ func.docs # "" /\ str_in(word, str_lower(func.docs))

\* the rewrite with is_optional assigned outside the test of the name
rename_want_master_all_optional(arguments) ==
    [k \in 1..Len(arguments) |->
        IF arguments[k].name = "wantmaster"
        THEN [arguments[k] EXCEPT !.name = "want_master", !.is_optional = TRUE]
        ELSE [arguments[k] EXCEPT !.is_optional = TRUE]]

\* the two curated renames that also rewrite the argument wantmaster
rename_want_master(arguments) ==
    [k \in 1..Len(arguments) |->
        IF arguments[k].name = "wantmaster"
        THEN [arguments[k] EXCEPT !.name = "want_master", !.is_optional = TRUE]
        ELSE arguments[k]]

\* the dropped names without get_selected_track
curated_drops_counted_only ==
    {"count_selected_tracks", "add_project_marker", "enum_project_markers2"}

\* the names the curated ReaProject overrides drop
curated_drops ==
    {"count_selected_tracks", "add_project_marker", "enum_project_markers2",
     "get_selected_track"}

\* the curated ReaProject renames of the elif chain
curated_rename(reawrap_name) ==
    IF reawrap_name = "count_selected_tracks2" THEN "count_selected_tracks"
    ELSE IF reawrap_name = "add_project_marker2" THEN "add_project_marker"
    ELSE IF reawrap_name = "enum_project_markers3" THEN "enum_project_markers"
    ELSE IF reawrap_name = "get_play_position_ex" THEN "get_play_position_lat_comp"
    ELSE IF reawrap_name = "get_play_position2_ex" THEN "get_play_position"
    ELSE IF reawrap_name = "get_project_time_signature2" THEN "get_project_time_signature"
    ELSE IF reawrap_name = "get_selected_track2" THEN "get_selected_track"
    ELSE reawrap_name

\* the two filters on the documentation
dedupe_filters(func) == docs_mention(func, "deprecated") \/ docs_mention(func, "discouraged")

\* whether one of the continue statements of the loop body skips func
dedupe_skips(name_space, func) ==
    \/ dedupe_filters(func)
    \/ name_space = "ReaProject" /\ func.reawrap_name \in curated_drops

\* func after the assignments of the elif chain (func is not skipped)
dedupe_renamed(name_space, func) ==
    IF name_space # "ReaProject" THEN func
    ELSE [func EXCEPT
            !.reawrap_name = curated_rename(@),
            !.arguments = IF func.reawrap_name \in
                                {"count_selected_tracks2", "get_selected_track2"}
                          THEN rename_want_master(@) ELSE @]

\* the loop body without the final test
dedupe_accepts_all(seen, func) == TRUE

\* the final test of the loop body: a name not seen yet is appended
dedupe_accepts(seen, func) == func.reawrap_name \notin seen

\* the end of the loop body for the function at index f, func being the object
\* after the renames
dedupe_function(f, func, st) ==
    LoopState([st.objects EXCEPT ![f] = func],
              st.seen \cup {func.reawrap_name},
              IF dedupe_accepts(st.seen, func) THEN Append(st.kept, f) ELSE st.kept)

RECURSIVE dedupe_name_space(_, _, _, _)
\* the inner loop over funcs[i..] of one namespace
dedupe_name_space(name_space, funcs, i, st) ==
    IF i > Len(funcs) THEN st
    ELSE dedupe_name_space(
            name_space, funcs, i + 1,
            IF dedupe_skips(name_space, st.objects[funcs[i]]) THEN st
            ELSE dedupe_function(funcs[i],
                                 dedupe_renamed(name_space, st.objects[funcs[i]]), st))

RECURSIVE dedupe_loop(_, _, _)
\* the outer loop over refined.items()[i..]; result holds deduped so far
dedupe_loop(items, i, result) ==
    IF i > Len(items) THEN result
    ELSE dedupe_loop(items, i + 1,
            stored(result, items[i].name_space,
                   dedupe_name_space(items[i].name_space, items[i].functions, 1,
                                     LoopState(result.objects, {}, <<>>))))

dedupe_functions(table, objects) == dedupe_loop(table, 1, StageResult(objects, <<>>))

(***************************************************************************)
(* get_functions_from_docs, one action per statement.  The document is a   *)
(* list of function_definition entries drawn from a catalogue: l_func is   *)
(* the text of the div of class l_func, p the texts of the children of the *)
(* paragraph, or None when the entry has no paragraph.                     *)
(***************************************************************************)
Entry(l_func, p) == [l_func |-> l_func, p |-> p]

Catalogue ==
    {Entry("integer reaper.CountSelectedTracks(ReaProject proj)", NoList),
     Entry("integer reaper.CountSelectedTracks2(ReaProject proj, boolean wantmaster)",
           List(<<"Count selected tracks.">>)),
     Entry("integer reaper.EnumProjectMarkers(ReaProject proj, integer idx)", NoList),
     Entry("integer reaper.EnumProjectMarkers3(ReaProject proj, integer idx)",
           List(<<"">>)),
     Entry("integer reaper.TrackFX_GetCount(MediaTrack track)", NoList),
     Entry("integer reaper.TakeFX_GetCount(MediaItem_Take take)", NoList),
     Entry("MediaItem_Take reaper.GetMediaItemTake(MediaItem item, integer tk)", NoList),
     Entry("MediaItem_Take reaper.GetMediaItem_Take(MediaItem item, integer tk)",
           List(<<"Discouraged, use GetMediaItemTake">>)),
     Entry("number reaper.GetPlayPosition2()",
           List(<<"DEPRECATED ", "use GetPlayPosition2Ex">>)),
     Entry("number reaper.GetMediaTrackInfo_Value(MediaTrack tr, string parmname)",
           List(<<"Get track attributes.", "B_MUTE : bool * : muted",
                  "DEPRECATED: use GetSetMediaTrackInfo">>)),
     Entry("reaper.UpdateArrange", NoList)}

Documents == UNION {[1..n -> Catalogue] : n \in 0..MaxFuncs}

Init ==
    /\ soup \in {[functions_all |-> entries, lua |-> <<>>] : entries \in Documents}
    /\ functions = <<>>
    /\ by_name_space = <<>>
    /\ refined = <<>>
    /\ deduped = <<>>
    /\ pc = "parse"
    /\ error = None
    /\ the_type = None
    /\ calls = <<>>
    /\ text_in = ""
    /\ text_out = <<>>
    /\ yielded = Yields(<<>>)

\* outcome is what the generator did: list() returns its items or propagates
\* the exception, which ends get_functions_from_docs
Listed(outcome) ==
    IF outcome.raised # None
    THEN pc' = "error" /\ error' = outcome.raised /\ UNCHANGED functions
    ELSE pc' = "group" /\ functions' = outcome.items /\ UNCHANGED error

\* functions = list(iter_lua_functions(soup))
Parse ==
    /\ pc = "parse"
    /\ Listed(iter_lua_functions(soup, FALSE))
    /\ UNCHANGED <<the_type, calls, soup, by_name_space, refined, deduped, text_in, text_out, yielded>>

\* by_name_space = group_functions_by_name_space(functions)
Group ==
    /\ pc = "group"
    /\ by_name_space' = group_functions_by_name_space(functions)
    /\ pc' = "refine"
    /\ UNCHANGED <<the_type, calls, soup, functions, refined, deduped, error, text_in, text_out, yielded>>

Refined(result) == functions' = result.objects /\ refined' = result.table

\* refined = refine_functions(by_name_space)
Refine ==
    /\ pc = "refine"
    /\ Refined(refine_functions(by_name_space, functions))
    /\ pc' = "dedupe"
    /\ UNCHANGED <<the_type, calls, soup, by_name_space, deduped, error, text_in, text_out, yielded>>

Deduped(result) == functions' = result.objects /\ deduped' = result.table

\* return dedupe_functions(refined)
Dedupe ==
    /\ pc = "dedupe"
    /\ Deduped(dedupe_functions(refined, functions))
    /\ pc' = "done"
    /\ UNCHANGED <<the_type, calls, soup, by_name_space, refined, error, text_in, text_out, yielded>>

Next == Parse \/ Group \/ Refine \/ Dedupe

Spec == Init /\ [][Next]_vars

(***************************************************************************)
(* get_functions_from_docs on documents of the project marker functions    *)
(***************************************************************************)
MarkerCatalogue ==
    {Entry("integer reaper.EnumProjectMarkers(ReaProject proj, integer idx)", NoList),
     Entry("integer reaper.EnumProjectMarkers(ReaProject proj, integer idx)",
           List(<<"Discouraged.">>)),
     Entry("integer reaper.EnumProjectMarkers2(ReaProject proj, integer idx)", NoList),
     Entry("integer reaper.EnumProjectMarkers3(ReaProject proj, integer idx)",
           List(<<"Enumerate the markers.">>)),
     Entry("integer reaper.EnumProjectMarkers3(ReaProject proj, integer idx)",
           List(<<"Deprecated.">>)),
     Entry("integer reaper.AddProjectMarker2(ReaProject proj, boolean isrgn)", NoList)}

MarkerDocuments == UNION {[1..n -> MarkerCatalogue] : n \in 0..MaxFuncs}

MarkersInit ==
    /\ soup \in {[functions_all |-> entries, lua |-> <<>>] : entries \in MarkerDocuments}
    /\ functions = <<>>
    /\ by_name_space = <<>>
    /\ refined = <<>>
    /\ deduped = <<>>
    /\ pc = "parse"
    /\ error = None
    /\ the_type = None
    /\ calls = <<>>
    /\ text_in = ""
    /\ text_out = <<>>
    /\ yielded = Yields(<<>>)

SpecMarkers == MarkersInit /\ [][Next]_vars

(***************************************************************************)
(* get_functions_from_docs on documents of the selected track functions    *)
(***************************************************************************)
SelectedCatalogue ==
    {Entry("integer reaper.CountSelectedTracks(ReaProject proj)", NoList),
     Entry("integer reaper.CountSelectedTracks2(ReaProject proj, boolean wantmaster)",
           List(<<"Count selected tracks.">>)),
     Entry("integer reaper.CountSelectedTracks2(ReaProject proj, boolean wantmaster)",
           List(<<"Discouraged.">>)),
     Entry("MediaTrack reaper.GetSelectedTrack(ReaProject proj, integer seltrackidx)",
           NoList),
     Entry("MediaTrack reaper.GetSelectedTrack2(ReaProject proj, integer seltrackidx, boolean wantmaster)",
           NoList),
     Entry("MediaTrack reaper.GetSelectedTrack2(ReaProject proj, integer seltrackidx, boolean wantmaster)",
           List(<<"Deprecated.">>)),
     Entry("integer reaper.CountSelectedTracks2(MediaTrack tr, boolean wantmaster)", NoList)}

SelectedDocuments == UNION {[1..n -> SelectedCatalogue] : n \in 0..MaxFuncs}

SelectedInit ==
    /\ soup \in {[functions_all |-> entries, lua |-> <<>>] : entries \in SelectedDocuments}
    /\ functions = <<>>
    /\ by_name_space = <<>>
    /\ refined = <<>>
    /\ deduped = <<>>
    /\ pc = "parse"
    /\ error = None
    /\ the_type = None
    /\ calls = <<>>
    /\ text_in = ""
    /\ text_out = <<>>
    /\ yielded = Yields(<<>>)

SpecSelected == SelectedInit /\ [][Next]_vars

(***************************************************************************)
(* get_functions_from_docs on documents of one entry, whose text is built  *)
(* from return values, a name and an argument list                         *)
(***************************************************************************)
ParseReturns == {"", "integer ", "integer retval, string buf ", "boolean retval,,number pos "}

ParseArguments ==
    {"", "integer a", "integer a,integer b", "integer a, integer b",
     "integer a,,integer b", "integer a, ", "optional x", "optional boolean b"}

ParseTexts ==
    {returns \o "reaper.GetX(" \o arguments \o ")" :
        returns \in ParseReturns, arguments \in ParseArguments}
    \cup {returns \o "reaper.GetX" : returns \in ParseReturns}

ParseInit ==
    /\ soup \in {[functions_all |-> <<Entry(l_func, NoList)>>, lua |-> <<>>] :
                    l_func \in ParseTexts}
    /\ functions = <<>>
    /\ by_name_space = <<>>
    /\ refined = <<>>
    /\ deduped = <<>>
    /\ pc = "parse"
    /\ error = None
    /\ the_type = None
    /\ calls = <<>>
    /\ text_in = ""
    /\ text_out = <<>>
    /\ yielded = Yields(<<>>)

SpecParse == ParseInit /\ [][Next]_vars

(***************************************************************************)
(* list(iter_lua_functions(soup, built_in=True)) on documents whose        *)
(* section lua holds the entries of the built-in functions                 *)
(***************************************************************************)
BuiltInCatalogue ==
    {Entry("number reaper.time_precise()", NoList),
     Entry("reaper.defer(function f)", List(<<"Runs f later.">>)),
     Entry("gfx.arc(x,y)", NoList),
     Entry("reaper.new_array(optional size)", NoList),
     Entry("reaper.runloop( )", NoList)}

BuiltInDocuments == UNION {[1..n -> BuiltInCatalogue] : n \in 0..MaxFuncs}

BuiltInInit ==
    /\ soup \in {[functions_all |-> <<>>, lua |-> entries] : entries \in BuiltInDocuments}
    /\ functions = <<>>
    /\ by_name_space = <<>>
    /\ refined = <<>>
    /\ deduped = <<>>
    /\ pc = "built_in"
    /\ error = None
    /\ the_type = None
    /\ calls = <<>>
    /\ text_in = ""
    /\ text_out = <<>>
    /\ yielded = Yields(<<>>)

\* outcome is what the generator did: list() returns its items or propagates
\* the exception
ListedBuiltIn(outcome) ==
    IF outcome.raised # None
    THEN pc' = "error" /\ error' = outcome.raised /\ UNCHANGED functions
    ELSE pc' = "done" /\ functions' = outcome.items /\ UNCHANGED error

ListBuiltIn ==
    /\ pc = "built_in"
    /\ ListedBuiltIn(iter_lua_functions(soup, TRUE))
    /\ UNCHANGED <<the_type, calls, soup, by_name_space, refined, deduped, text_in, text_out, yielded>>

BuiltInNext == ListBuiltIn

SpecBuiltIn == BuiltInInit /\ [][BuiltInNext]_vars

(***************************************************************************)
(* get_functions_from_docs on documents of one entry, whose signature is a *)
(* function name with an argument list                                     *)
(***************************************************************************)
SignatureNames ==
    {"TrackFX_Delete", "TrackFX_GetCount", "TakeFX_Delete", "TakeFX_GetCount",
     "TrackFX_GetParam", "TakeFX_3Band", "BR_TrackFX_GetFXModuleName",
     "PCM_Source_Destroy", "Main_OnCommand", "GetTrack", "BR_GetMouseCursorContext",
     "TimeMap2_beatsToTime", "midi_init", "GetSet_LoopTimeRange", "_Reserved",
     "MIDI_GetNote", "Undo_BeginBlock", "GetMediaTrackInfo"}

SignatureArguments ==
    {"", "integer x", "MediaTrack tr", "MediaItem_Take take", "PCM_source src"}

Signatures ==
    {"reaper." \o name \o "(" \o arguments \o ")" :
        name \in SignatureNames, arguments \in SignatureArguments}

ClassifyInit ==
    /\ soup \in {[functions_all |-> <<Entry(l_func, NoList)>>, lua |-> <<>>] :
                    l_func \in Signatures}
    /\ functions = <<>>
    /\ by_name_space = <<>>
    /\ refined = <<>>
    /\ deduped = <<>>
    /\ pc = "parse"
    /\ error = None
    /\ the_type = None
    /\ calls = <<>>
    /\ text_in = ""
    /\ text_out = <<>>
    /\ yielded = Yields(<<>>)

SpecClassify == ClassifyInit /\ [][Next]_vars

(***************************************************************************)
(* to_snake applied to a string, then to its own result                    *)
(***************************************************************************)
SnakeAlphabet == {"A", "B", "c", "d", "1", "_"}

RECURSIVE StringsUpTo(_, _)
\* the strings over alphabet of length at most n
StringsUpTo(alphabet, n) ==
    IF n = 0 THEN {""}
    ELSE StringsUpTo(alphabet, n - 1)
            \cup {s \o c : s \in StringsUpTo(alphabet, n - 1), c \in alphabet}

SnakeInit ==
    /\ soup = [functions_all |-> <<>>, lua |-> <<>>]
    /\ functions = <<>>
    /\ by_name_space = <<>>
    /\ refined = <<>>
    /\ deduped = <<>>
    /\ pc = "snake"
    /\ error = None
    /\ the_type = None
    /\ calls = <<>>
    /\ text_in \in StringsUpTo(SnakeAlphabet, MaxSnakeLen)
    /\ text_out = <<>>
    /\ yielded = Yields(<<>>)

SnakeFirst ==
    /\ pc = "snake"
    /\ text_out' = <<to_snake(text_in)>>
    /\ pc' = "again"
    /\ UNCHANGED <<the_type, calls, soup, functions, by_name_space, refined, deduped, error, text_in,
                   yielded>>

SnakeAgain ==
    /\ pc = "again"
    /\ text_out' = Append(text_out, to_snake(text_out[1]))
    /\ pc' = "done"
    /\ UNCHANGED <<the_type, calls, soup, functions, by_name_space, refined, deduped, error, text_in,
                   yielded>>

SnakeNext == SnakeFirst \/ SnakeAgain

SpecSnake == SnakeInit /\ [][SnakeNext]_vars

(***************************************************************************)
(* iter_types_and_names applied to one argument string: at most MaxTokens  *)
(* tokens of a vocabulary, separated by single blanks; the empty token     *)
(* gives the leading, trailing and repeated blanks.                        *)
(***************************************************************************)
ArgTokens ==
    {"", "optional", "boolean", "MediaItem_Take", "wantmaster", "trackidx", "guidGUID",
     "end", "isOn", "a.b", "nameofname"}

RECURSIVE join_blank(_)
\* " ".join(tokens)
join_blank(tokens) ==
    IF tokens = <<>> THEN ""
    ELSE IF Len(tokens) = 1 THEN tokens[1]
    ELSE tokens[1] \o " " \o join_blank(Tail(tokens))

ArgStrings == {join_blank(tokens) : tokens \in UNION {[1..n -> ArgTokens] : n \in 1..MaxTokens}}

ArgsInit ==
    /\ soup = [functions_all |-> <<>>, lua |-> <<>>]
    /\ functions = <<>>
    /\ by_name_space = <<>>
    /\ refined = <<>>
    /\ deduped = <<>>
    /\ pc = "args"
    /\ error = None
    /\ the_type = None
    /\ calls = <<>>
    /\ text_in \in ArgStrings
    /\ text_out = <<>>
    /\ yielded = Yields(<<>>)

\* list(iter_types_and_names([text_in])), an exception included
Tokenize ==
    /\ pc = "args"
    /\ yielded' = iter_types_and_names(<<text_in>>)
    /\ pc' = "done"
    /\ UNCHANGED <<the_type, calls, soup, functions, by_name_space, refined, deduped, error, text_in,
                   text_out>>

ArgsNext == Tokenize

SpecArgs == ArgsInit /\ [][ArgsNext]_vars

(***************************************************************************)
(* ReaType.default_value (specification SpecDefault): one ReaType object   *)
(* is read, assigned and given another reascript_type, in any order.       *)
(***************************************************************************)
MaxCalls == 4

\* the reascript_type of the object when it is constructed
DefaultTypes ==
    {"boolean", "integer", "double", "float", "number", "string", "str", "MediaTrack",
     "function"}
\* the reascript_type values assigned to the object later
LaterTypes == {"boolean", "string"}
\* the values assigned to default_value; None resets it
AssignedValues == {None, "1"}

\* one call on the object: self is the object before the call, value is what a
\* read returned or what was assigned
Call(op, self, value) == [op |-> op, self |-> self, value |-> value]

DefaultInit ==
    /\ soup = [functions_all |-> <<>>, lua |-> <<>>]
    /\ functions = <<>>
    /\ by_name_space = <<>>
    /\ refined = <<>>
    /\ deduped = <<>>
    /\ pc = "default"
    /\ error = None
    /\ text_in = ""
    /\ text_out = <<>>
    /\ yielded = Yields(<<>>)
    /\ the_type \in {ReaType(t, None, FALSE) : t \in DefaultTypes}
    /\ calls = <<>>

\* the_type.default_value is read
ReadDefault ==
    /\ pc = "default"
    /\ Len(calls) < MaxCalls
    /\ the_type' = default_value_stored(the_type)
    /\ calls' = Append(calls, Call("read", the_type, default_value(default_value_stored(the_type))))
    /\ UNCHANGED <<soup, functions, by_name_space, refined, deduped, pc, error, text_in,
                   text_out, yielded>>

\* the_type.default_value = value
AssignDefault ==
    /\ pc = "default"
    /\ Len(calls) < MaxCalls
    /\ \E value \in AssignedValues :
        /\ the_type' = default_value_setter(the_type, value)
        /\ calls' = Append(calls, Call("assign", the_type, value))
    /\ UNCHANGED <<soup, functions, by_name_space, refined, deduped, pc, error, text_in,
                   text_out, yielded>>

\* the_type.reascript_type = reascript_type: the fields of the dataclass are plain
AssignType ==
    /\ pc = "default"
    /\ Len(calls) < MaxCalls
    /\ \E reascript_type \in LaterTypes :
        /\ the_type' = [the_type EXCEPT !.reascript_type = reascript_type]
        /\ calls' = Append(calls, Call("type", the_type, reascript_type))
    /\ UNCHANGED <<soup, functions, by_name_space, refined, deduped, pc, error, text_in,
                   text_out, yielded>>

DefaultNext == ReadDefault \/ AssignDefault \/ AssignType

SpecDefault == DefaultInit /\ [][DefaultNext]_vars

(***************************************************************************)
(* Properties of the pipeline (specification Spec)                         *)
(***************************************************************************)
\* the tables are assigned once the statement that computes them has run
Grouped == pc \in {"refine", "dedupe", "done"}
RefinedDone == pc \in {"dedupe", "done"}

\* the places <<n, k>> of a table: item n, position k of its list
Places(table) ==
    UNION {{<<n, k>> : k \in 1..Len(table[n].functions)} : n \in 1..Len(table)}
PlacesOf(table, f) == {pl \in Places(table) : table[pl[1]].functions[pl[2]] = f}
\* the namespace a table files the object f under
NameSpaceIn(table, f) == table[(CHOOSE pl \in PlacesOf(table, f) : TRUE)[1]].name_space
\* the target name of the object at position k of the list of item
NameAt(item, k) == functions[item.functions[k]].reawrap_name
Keys(table) == [n \in 1..Len(table) |-> table[n].name_space]

\* the text of the paragraph of entry f of the document, in lower case
Documentation(f) ==
    IF soup.functions_all[f].p.is_none THEN ""
    ELSE str_lower(str_join(soup.functions_all[f].p.items))
Flagged(text) == str_in("deprecated", text) \/ str_in("discouraged", text)

\* C1: in the final table no two records of one namespace have the same
\* target name, the curated ReaProject renames being applied
C1_UniqueTargetNames ==
    pc = "done" =>
        \A n \in 1..Len(deduped) : \A i, j \in 1..Len(deduped[n].functions) :
            i # j => NameAt(deduped[n], i) # NameAt(deduped[n], j)

\* a curated rename made two records of ReaProject collide, and one was kept
C1_RenameCollides ==
    /\ pc = "done"
    /\ \E n \in 1..Len(refined) : \E i, j \in 1..Len(refined[n].functions) :
        /\ i < j
        /\ refined[n].name_space = "ReaProject"
        /\ functions[refined[n].functions[i]].reascript_name = "EnumProjectMarkers"
        /\ functions[refined[n].functions[j]].reascript_name = "EnumProjectMarkers3"
        /\ NameAt(refined[n], i) = "enum_project_markers"
        /\ NameAt(refined[n], j) = "enum_project_markers"
        /\ refined[n].functions[i] \in SeqRange(deduped[n].functions)
        /\ refined[n].functions[j] \notin SeqRange(deduped[n].functions)

\* C2: a function whose documentation contains "deprecated" or "discouraged",
\* in any letter case, is in no list of the final table
C2_FlaggedNeverFinal ==
    pc = "done" =>
        \A n \in 1..Len(deduped) : \A k \in 1..Len(deduped[n].functions) :
            ~Flagged(Documentation(deduped[n].functions[k]))

\* C3: group_functions_by_name_space files every input record exactly once,
\* files nothing else, and leaves no key with an empty list
C3_GroupPartitions ==
    Grouped =>
        /\ \A f \in 1..Len(functions) : Cardinality(PlacesOf(by_name_space, f)) = 1
        /\ \A pl \in Places(by_name_space) :
            by_name_space[pl[1]].functions[pl[2]] \in 1..Len(functions)
        /\ \A n \in 1..Len(by_name_space) : by_name_space[n].functions # <<>>
        /\ \A n, m \in 1..Len(by_name_space) :
            n # m => by_name_space[n].name_space # by_name_space[m].name_space

\* three records were grouped under two namespaces
C3_TwoNameSpaces ==
    pc = "refine" /\ Len(functions) = MaxFuncs /\ Len(by_name_space) = 2

IndexPermutations(n) == {perm \in [1..n -> 1..n] : \A a, b \in 1..n : a # b => perm[a] # perm[b]}
Permuted(list, perm) == [k \in 1..Len(list) |-> list[perm[k]]]
\* table is the result for the permuted list: every record has the namespace
\* it has in by_name_space
SameNameSpaces(table, perm) ==
    \A k \in 1..Len(functions) :
        NameSpaceIn(table, k) = NameSpaceIn(by_name_space, perm[k])

\* C4: for every permutation of the input list group_functions_by_name_space
\* assigns every record the namespace it assigns it in the original order
C4_OrderIndependent ==
    pc = "refine" =>
        \A perm \in IndexPermutations(Len(functions)) :
            SameNameSpaces(group_functions_by_name_space(Permuted(functions, perm)), perm)

\* the first and the last record of the input have different namespaces, and
\* a record between them shares the namespace of the first
C4_Interleaved ==
    /\ pc = "refine"
    /\ Len(functions) >= 3
    /\ NameSpaceIn(by_name_space, 1) # NameSpaceIn(by_name_space, Len(functions))
    /\ NameSpaceIn(by_name_space, 1) = NameSpaceIn(by_name_space, 2)

\* the position of x in a list without repetitions
PositionIn(list, x) == CHOOSE k \in 1..Len(list) : list[k] = x
\* sub lists elements of list, in the order list has them
Subsequence(sub, list) ==
    /\ \A a \in 1..Len(sub) : sub[a] \in SeqRange(list)
    /\ \A a, b \in 1..Len(sub) : a < b => PositionIn(list, sub[a]) < PositionIn(list, sub[b])
\* every list of table is a subsequence of the list by_name_space has for its key
SubTable(table) ==
    \A n \in 1..Len(table) :
        /\ table[n].name_space \in dict_keys(by_name_space)
        /\ Subsequence(table[n].functions, dict_get(by_name_space, table[n].name_space))

\* C5: a list of the raw table has the records in the order of the input, and
\* the lists of the refined and of the final table are subsequences of the raw
\* list of the same namespace
C5_FirstSeenOrder ==
    /\ Grouped =>
        \A n \in 1..Len(by_name_space) : \A a, b \in 1..Len(by_name_space[n].functions) :
            a < b => by_name_space[n].functions[a] < by_name_space[n].functions[b]
    /\ RefinedDone => SubTable(refined)
    /\ pc = "done" => SubTable(deduped)

\* a namespace of three records lost one of them and kept two
C5_TwoKeptOfThree ==
    /\ pc = "done"
    /\ \E n \in 1..Len(deduped) :
        /\ Len(deduped[n].functions) = 2
        /\ Len(dict_get(by_name_space, deduped[n].name_space)) = 3

\* keys are in case-insensitive sorted order
SortedKeys(keys) ==
    \A a, b \in 1..Len(keys) : a < b => str_less(str_lower(keys[a]), str_lower(keys[b]))

\* C6: the namespaces of the refined table and of the final table are in
\* case-insensitive sorted order, whatever the key order of the raw table
C6_NameSpacesSorted ==
    /\ RefinedDone => SortedKeys(Keys(refined)) /\ SeqRange(Keys(refined)) = dict_keys(by_name_space)
    /\ pc = "done" => Keys(deduped) = Keys(refined)

\* the raw table has ReaProject before Reaper, the final table after it
C6_ReaperBeforeReaProject ==
    /\ pc = "done"
    /\ {"Reaper", "ReaProject"} \subseteq dict_keys(by_name_space)
    /\ dict_index(by_name_space, "ReaProject") < dict_index(by_name_space, "Reaper")
    /\ dict_index(deduped, "Reaper") < dict_index(deduped, "ReaProject")

\* C10: a TrackFX_GetCount of a MediaTrack that is not deprecated is filed
\* under MediaTrack, a TakeFX_GetCount of a MediaItemTake under MediaItemTake,
\* each with the target name get_fx_count, and the final table has it there
FxCountIn(f, name, name_space) ==
    (/\ functions[f].reascript_name = name
     /\ functions[f].arguments # <<>>
     /\ functions[f].arguments[1].reascript_type = name_space
     /\ ~Flagged(Documentation(f)))
    => /\ NameSpaceIn(by_name_space, f) = name_space
       /\ functions[f].reawrap_name = "get_fx_count"
       /\ pc = "done" =>
            \E k \in 1..Len(dict_get(deduped, name_space)) :
                /\ NameAt(deduped[dict_index(deduped, name_space)], k) = "get_fx_count"
                /\ functions[dict_get(deduped, name_space)[k]].reascript_name = name

C10_FxCountInTypeNameSpace ==
    RefinedDone =>
        \A f \in 1..Len(functions) :
            /\ FxCountIn(f, "TrackFX_GetCount", "MediaTrack")
            /\ FxCountIn(f, "TakeFX_GetCount", "MediaItemTake")

\* both functions went through the pipeline
C10_BothCounted ==
    /\ pc = "done"
    /\ \E f, g \in 1..Len(functions) :
        /\ functions[f].reascript_name = "TrackFX_GetCount"
        /\ functions[g].reascript_name = "TakeFX_GetCount"
        /\ f \in SeqRange(dict_get(deduped, "MediaTrack"))
        /\ g \in SeqRange(dict_get(deduped, "MediaItemTake"))

(***************************************************************************)
(* Properties of to_snake (specification SpecSnake)                        *)
(***************************************************************************)
SnakeCased(s) == CharsOf(s) \subseteq Lower \cup Digit \cup {"_"}

\* C7: to_snake(to_snake(s)) = to_snake(s), and to_snake returns a string of
\* lower-case letters, digits and underscores unchanged
C7_SnakeIdempotent ==
    /\ pc = "done" => text_out[2] = text_out[1]
    /\ (pc \in {"again", "done"} /\ SnakeCased(text_in)) => text_out[1] = text_in

\* to_snake inserted an underscore, and the second call changed nothing
C7_UnderscoreInserted ==
    /\ pc = "done"
    /\ text_in = "cAB1"
    /\ text_out = <<"c_ab1", "c_ab1">>

(***************************************************************************)
(* Properties of iter_types_and_names (specification SpecArgs)             *)
(***************************************************************************)
Tokens == NonEmpty(str_split(text_in, " "))
\* exactly one descriptor was yielded and no exception raised
YieldedOne == yielded.raised = None /\ Len(yielded.items) = 1

PlainName(name) ==
    /\ name \notin LUA_KEYWORDS
    /\ ~str_in(".", name)
    /\ ~str_in("__", name)
    /\ \A affix \in {"idx", "name", "type", "val", "pos"} : ~endswith(name, affix)
    /\ \A affix \in {"is", "swing", "nudge", "timesig"} : ~startswith(name, affix)
    /\ name # "guid_guid"
\* the name without its underscores and dots
Unmarked(name) == str_replace(str_replace(name, "_", ""), ".", "")
NormalType(type_) == IF type_ = "MediaItem_Take" THEN "MediaItemTake" ELSE type_

C9_OptionalTypeAndName ==
    (pc = "done" /\ Len(Tokens) = 3 /\ Tokens[1] = "optional") =>
        /\ YieldedOne
        /\ yielded.items[1].is_optional
        /\ yielded.items[1].reascript_type = Tokens[2]
        /\ Unmarked(yielded.items[1].name) = Unmarked(to_snake(Tokens[3]))

\* the suffixes of the first five rules of sanitize_name
Suffixes == {"idx", "name", "type", "val", "pos"}
\* the suffixes the snake-cased name ends in without being equal to them
SuffixesOf(name) == {suffix \in Suffixes : endswith(name, suffix) /\ name # suffix}
\* the name with one underscore before its final suffix
Separated(name, suffix) ==
    SubSeq(name, 1, Len(name) - Len(suffix)) \o "_" \o suffix

\* C24: "TYPE name" with a name that after snake-casing ends in idx, name,
\* type, val or pos and is longer than that suffix gives the snake-cased name
\* with one underscore before the final suffix and nothing else changed
C24_SeparatorBeforeSuffix ==
    (pc = "done" /\ Len(Tokens) = 2 /\ Tokens[1] # "optional") =>
        \A suffix \in SuffixesOf(to_snake(Tokens[2])) :
            /\ YieldedOne
            /\ yielded.items[1].name = Separated(to_snake(Tokens[2]), suffix)

\* an entry text in which the signature pattern cannot be found
NoSignature(text) == ~str_in("(", text) \/ ~str_in(")", text)
MalformedEntries == {f \in 1..Len(soup.functions_all) : NoSignature(soup.functions_all[f].l_func)}

\* C12: when the signature pattern is in no part of a top-level entry, the
\* ValueError ends get_functions_from_docs: no list of functions and no table
\* is ever assigned
C12_ParseErrorPropagates ==
    MalformedEntries # {} =>
        /\ pc \in {"parse", "error"}
        /\ pc = "error" => error = "ValueError"
        /\ functions = <<>> /\ by_name_space = <<>> /\ refined = <<>> /\ deduped = <<>>

\* the run ended with the error of the last entry, two good entries before it
C12_LastEntryMalformed ==
    /\ pc = "error"
    /\ error = "ValueError"
    /\ MalformedEntries = {3}

\* the ReaProject list of a table, empty when the table has no such key
ProjectListOf(table) ==
    IF "ReaProject" \in dict_keys(table) THEN dict_get(table, "ReaProject") ELSE <<>>
\* result is what the second run returns: the table of the first run, and its
\* records as the first run left them
SameAsFirstRun(result) ==
    /\ result.table = deduped
    /\ \A pl \in Places(deduped) :
        result.objects[deduped[pl[1]].functions[pl[2]]]
            = functions[deduped[pl[1]].functions[pl[2]]]
\* dedupe_functions applied to what refine_functions returned
Deduplicated(result) == dedupe_functions(result.table, result.objects)

\* C17: refine_functions and dedupe_functions applied again to the raw table,
\* whose records the first run changed, return the final table of the first
\* run: same namespaces, same records in the same order, with the same fields
C17_SecondRunSame ==
    pc = "done" => SameAsFirstRun(Deduplicated(refine_functions(by_name_space, functions)))

\* the first run renamed a record and its argument wantmaster
C17_RenamedInPlace ==
    /\ pc = "done"
    /\ \E f \in SeqRange(ProjectListOf(deduped)) :
        /\ functions[f].reascript_name = "CountSelectedTracks2"
        /\ functions[f].reawrap_name = "count_selected_tracks"
        /\ functions[f].arguments[2].name = "want_master"
        /\ functions[f].arguments[2].is_optional

(***************************************************************************)
(* Properties of the curated overrides (specification SpecMarkers)         *)
(***************************************************************************)
\* the target name refine_functions gives the object f in ReaProject
ProjectName(f) ==
    generate_reawrap_name("ReaProject", functions[f].fn_name_space,
                          functions[f].reascript_name)
\* the objects of the raw ReaProject list that are not deprecated and have the
\* refine-stage target name
RawNamed(name) ==
    {f \in SeqRange(ProjectListOf(by_name_space)) :
        ProjectName(f) = name /\ ~Flagged(Documentation(f))}
\* the objects of the final ReaProject list with the target name
FinalNamed(name) ==
    {f \in SeqRange(ProjectListOf(deduped)) : functions[f].reawrap_name = name}
\* ReaProject has the two functions of the claim
BothMarkers ==
    /\ pc = "done"
    /\ RawNamed("enum_project_markers2") # {}
    /\ RawNamed("enum_project_markers3") # {}

\* C11: with records named enum_project_markers2 and enum_project_markers3 in
\* ReaProject, neither deprecated, the final table has one record named
\* enum_project_markers, the one of the ...3 variant, and none named ...2 or ...3
C11_Markers3Survives ==
    BothMarkers =>
        /\ Cardinality(FinalNamed("enum_project_markers")) = 1
        /\ FinalNamed("enum_project_markers") \subseteq RawNamed("enum_project_markers3")
        /\ FinalNamed("enum_project_markers2") = {}
        /\ FinalNamed("enum_project_markers3") = {}

(***************************************************************************)
(* Properties of the built-in section (specification SpecBuiltIn)          *)
(***************************************************************************)
\* the entries of section lua that parse_lua_function accepts
WellFormedBuiltIns ==
    SelectSeq(soup.lua, LAMBDA func : parse_lua_function(func.l_func).raised = None)

\* C13: a malformed entry of the built-in section is skipped and every other
\* entry is yielded: the listing never ends with an exception
C13_BuiltInNeverAborts ==
    pc # "built_in" =>
        /\ pc = "done"
        /\ error = None
        /\ Len(functions) = Len(WellFormedBuiltIns)
        /\ \A f \in 1..Len(functions) :
            functions[f].signature = parse_lua_function(WellFormedBuiltIns[f].l_func).value.signature

(***************************************************************************)
(* Properties of single records (specification SpecClassify)               *)
(***************************************************************************)
\* C14: the target name of every record of the final table is a string that
\* is not empty, does not start with a digit and is no Lua keyword
C14_ValidTargetNames ==
    pc = "done" =>
        \A n \in 1..Len(deduped) : \A k \in 1..Len(deduped[n].functions) :
            /\ NameAt(deduped[n], k) # None
            /\ NameAt(deduped[n], k) # ""
            /\ Ch(NameAt(deduped[n], k), 1) \notin Digit
            /\ NameAt(deduped[n], k) \notin LUA_KEYWORDS

\* the type of the first argument of the record f, or None
FirstType(f) ==
    IF functions[f].arguments = <<>> THEN None
    ELSE functions[f].arguments[1].reascript_type
\* rule 1 for one family: the token or the name names it, no exception applies
InFamily(f, family, exceptions) ==
    /\ functions[f].fn_name_space = family \/ str_in(family, functions[f].reascript_name)
    /\ functions[f].reascript_name \notin exceptions
Rule1(f) ==
    \/ InFamily(f, "TrackFX", {"TrackFX_Delete", "TrackFX_GetCount"})
    \/ InFamily(f, "TakeFX", {"TakeFX_Delete", "TakeFX_GetCount"})
Rule2(f) == functions[f].fn_name_space = "PCM" \/ FirstType(f) \in {"PCM_source", "PCM_sink"}
Rule3(f) == FirstType(f) \in SeqRange(REAPER_TYPES)
Rule4(f) == functions[f].fn_name_space = None \/ functions[f].fn_name_space \in REAPER_NAMESPACES

\* C18: the namespace of a record is that of the first rule that matches:
\* family, PCM, type of the first argument, Reaper, the token
C18_FirstMatchingRule ==
    Grouped =>
        \A f \in 1..Len(functions) :
            /\ InFamily(f, "TrackFX", {"TrackFX_Delete", "TrackFX_GetCount"})
                => NameSpaceIn(by_name_space, f) = "TrackFX"
            /\ (InFamily(f, "TakeFX", {"TakeFX_Delete", "TakeFX_GetCount"})
                    /\ ~InFamily(f, "TrackFX", {"TrackFX_Delete", "TrackFX_GetCount"}))
                => NameSpaceIn(by_name_space, f) = "TakeFX"
            /\ (Rule2(f) /\ ~Rule1(f)) => NameSpaceIn(by_name_space, f) = "PCM"
            /\ (Rule3(f) /\ ~Rule1(f) /\ ~Rule2(f))
                => NameSpaceIn(by_name_space, f) = FirstType(f)
            /\ (Rule4(f) /\ ~Rule1(f) /\ ~Rule2(f) /\ ~Rule3(f))
                => NameSpaceIn(by_name_space, f) = "Reaper"
            /\ (~Rule1(f) /\ ~Rule2(f) /\ ~Rule3(f) /\ ~Rule4(f))
                => NameSpaceIn(by_name_space, f) = functions[f].fn_name_space

\* a function of token PCM with a first argument of type MediaTrack is in PCM
C18_PcmWinsOverType ==
    /\ pc = "refine"
    /\ functions[1].fn_name_space = "PCM"
    /\ FirstType(1) = "MediaTrack"
    /\ NameSpaceIn(by_name_space, 1) = "PCM"

FxExceptions == {"TrackFX_Delete", "TrackFX_GetCount", "TakeFX_Delete", "TakeFX_GetCount"}
\* the family the name f would belong to without the exception
FamilyOf(f) == IF startswith(functions[f].reascript_name, "TrackFX") THEN "TrackFX" ELSE "TakeFX"

\* C19 as the specification states it: the four excepted functions are never
\* in the namespace of their family, whatever their arguments
C19_NeverInFamily ==
    Grouped =>
        \A f \in 1..Len(functions) :
            functions[f].reascript_name \in FxExceptions
                => NameSpaceIn(by_name_space, f) # FamilyOf(f)

\* C19: the four excepted functions are classified by the later rules: PCM
\* for a first argument of type PCM_source or PCM_sink, the type of the first
\* argument when it is an opaque handle type, and otherwise their token, which
\* is the name of the family
C19_ExceptionsFallThrough ==
    Grouped =>
        \A f \in 1..Len(functions) :
            functions[f].reascript_name \in FxExceptions
                => NameSpaceIn(by_name_space, f) =
                    IF FirstType(f) \in {"PCM_source", "PCM_sink"} THEN "PCM"
                    ELSE IF FirstType(f) \in SeqRange(REAPER_TYPES) THEN FirstType(f)
                    ELSE FamilyOf(f)

\* TrackFX_GetCount with a first argument of type MediaTrack is in MediaTrack
C19_GetCountOfTrack ==
    /\ pc = "refine"
    /\ functions[1].reascript_name = "TrackFX_GetCount"
    /\ FirstType(1) = "MediaTrack"
    /\ NameSpaceIn(by_name_space, 1) = "MediaTrack"

\* the part of the name before its first underscore, for a name that has one
FirstPart(name) == SubSeq(name, 1, str_find(name, "_") - 1)
Canonical(token) ==
    IF token = "TimeMap2" THEN "TimeMap" ELSE IF token = "midi" THEN "MIDI" ELSE token
Parsed == pc \in {"group", "refine", "dedupe", "done"}

\* C20 as the specification states it: the token is the part of the name
\* before its first underscore, null without underscore or for a part of the
\* denylist, TimeMap2 and midi being written TimeMap and MIDI
C20_TokenIsFirstPart ==
    Parsed =>
        \A f \in 1..Len(functions) :
            functions[f].fn_name_space =
                IF ~str_in("_", functions[f].reascript_name) THEN None
                ELSE IF FirstPart(functions[f].reascript_name) \in FALSE_POSITIVE_NAMESPACES
                THEN None
                ELSE Canonical(FirstPart(functions[f].reascript_name))

\* C20: the token is the part of the name before its first underscore, null
\* without underscore, for an empty part and for a part of the denylist,
\* TimeMap2 and midi being written TimeMap and MIDI; no token is in the
\* denylist or equal to TimeMap2 or midi
C20_TokenIsFirstPartOrNull ==
    Parsed =>
        \A f \in 1..Len(functions) :
            /\ functions[f].fn_name_space =
                IF ~str_in("_", functions[f].reascript_name) THEN None
                ELSE IF FirstPart(functions[f].reascript_name) = "" THEN None
                ELSE IF FirstPart(functions[f].reascript_name) \in FALSE_POSITIVE_NAMESPACES
                THEN None
                ELSE Canonical(FirstPart(functions[f].reascript_name))
            /\ functions[f].fn_name_space \notin
                    FALSE_POSITIVE_NAMESPACES \cup {"TimeMap2", "midi"}

\* a token of the denylist was discarded
C20_DenylistDiscarded ==
    /\ pc = "group"
    /\ functions[1].reascript_name = "GetSet_LoopTimeRange"
    /\ functions[1].fn_name_space = None

\* the tokens exempt from stripping
ExemptTokens == {"MIDI", "Undo", "Audio", "Menu", "Splash", "ThemeLayout"}
\* the source name generate_reawrap_name works on: TimeMap2 is written TimeMap
SourceName(f) == canonical_time_map(functions[f].reascript_name)
\* the condition of C21 for the record f filed under name_space
StripCase(f, name_space) ==
    /\ \/ functions[f].fn_name_space # None
            /\ str_in(functions[f].fn_name_space, SourceName(f))
       \/ str_in(name_space, SourceName(f))
    /\ functions[f].fn_name_space \notin ExemptTokens
\* the source name with every occurrence of the token, then of name_space, removed
Stripped(f, name_space) ==
    str_replace(IF functions[f].fn_name_space # None
                THEN str_replace(SourceName(f), functions[f].fn_name_space, "")
                ELSE SourceName(f),
                name_space, "")
\* the steps of generate_reawrap_name after the stripping
Finished(name_space, name) ==
    functions_special_cases(
        name_space, keyword_suffix(to_snake(strip_leading_underscores(name))))
\* the state after refine_functions, before dedupe_functions renames
JustRefined == pc = "dedupe"

\* C21: the name refine_functions gives a record comes from the source name
\* with the token and the namespace removed exactly when the token (not null)
\* or the namespace is a substring of the source name and the token is not
\* exempt, and from the whole source name otherwise; with an exempt token it is
\* the snake-cased source name
C21_StripsUnlessExempt ==
    JustRefined =>
        \A n \in 1..Len(by_name_space) : \A k \in 1..Len(by_name_space[n].functions) :
            /\ NameAt(by_name_space[n], k) =
                Finished(by_name_space[n].name_space,
                         IF StripCase(by_name_space[n].functions[k], by_name_space[n].name_space)
                         THEN Stripped(by_name_space[n].functions[k], by_name_space[n].name_space)
                         ELSE SourceName(by_name_space[n].functions[k]))
            /\ functions[by_name_space[n].functions[k]].fn_name_space \in ExemptTokens
                => NameAt(by_name_space[n], k)
                    = to_snake(functions[by_name_space[n].functions[k]].reascript_name)

\* a record whose exempt token is a substring of its name keeps the whole name
C21_UndoKept ==
    /\ JustRefined
    /\ \E f \in 1..Len(functions) :
        /\ functions[f].fn_name_space = "Undo"
        /\ str_in("Undo", functions[f].reascript_name)
        /\ functions[f].reawrap_name = "undo_begin_block"

(***************************************************************************)
(* Properties of the superseding overloads (specification SpecSelected)    *)
(***************************************************************************)
\* the documentation of the record f says deprecated
Deprecated(f) == str_in("deprecated", str_lower(functions[f].docs))
\* the documentation of the record f says deprecated or discouraged
Filtered(f) == Flagged(str_lower(functions[f].docs))
\* the arguments of f after the step are those before it, wantmaster being
\* renamed and marked optional
WantMasterRewritten(f) ==
    /\ Len(functions'[f].arguments) = Len(functions[f].arguments)
    /\ \A a \in 1..Len(functions[f].arguments) :
        functions'[f].arguments[a] =
            IF functions[f].arguments[a].name = "wantmaster"
            THEN [functions[f].arguments[a] EXCEPT !.name = "want_master",
                                                   !.is_optional = TRUE]
            ELSE functions[f].arguments[a]
\* in the step of dedupe_functions the record f of the ReaProject list named
\* old is kept under the name new
KeptAs(f, old, new) ==
    functions[f].reawrap_name = old =>
        /\ f \in SeqRange(ProjectListOf(deduped'))
        /\ functions'[f].reawrap_name = new
        /\ WantMasterRewritten(f)
\* in the step of dedupe_functions the record f of the ReaProject list named
\* name is dropped
DroppedIf(f, name) ==
    functions[f].reawrap_name = name => f \notin SeqRange(ProjectListOf(deduped'))
DedupeStep == pc = "dedupe" /\ pc' = "done"

GroupStep == pc = "group" /\ pc' = "refine"
RefineStep == pc = "refine" /\ pc' = "dedupe"
\* the record after differs from the record before in reawrap_name at most
OnlyNameChanged(before, after) ==
    [after EXCEPT !.reawrap_name = before.reawrap_name] = before
\* the argument after differs from the argument before only if it was named
\* wantmaster, and then in name and is_optional at most
OnlyWantMasterChanged(before, after) ==
    /\ [after EXCEPT !.name = before.name, !.is_optional = before.is_optional] = before
    /\ before.name # "wantmaster" => after = before
\* the record after differs from the record before in reawrap_name and in its
\* arguments named wantmaster at most
OnlyNameAndWantMasterChanged(before, after) ==
    /\ [after EXCEPT !.reawrap_name = before.reawrap_name,
                     !.arguments = before.arguments] = before
    /\ Len(after.arguments) = Len(before.arguments)
    /\ \A a \in 1..Len(before.arguments) :
        OnlyWantMasterChanged(before.arguments[a], after.arguments[a])
\* dedupe_functions after the first n - 1 items of refined
BeforeItem(n) == dedupe_loop(SubSeq(refined, 1, n - 1), 1, StageResult(functions, <<>>))
\* the loop of dedupe_functions after the first k records of item n of refined
AfterRecord(n, k) ==
    dedupe_name_space(refined[n].name_space, SubSeq(refined[n].functions, 1, k), 1,
                      LoopState(BeforeItem(n).objects, {}, <<>>))
\* the records appended to the final table at st are in the objects as st has them
AcceptedAsIn(st, objects) == \A i \in 1..Len(st.kept) : objects[st.kept[i]] = st.objects[st.kept[i]]

\* C25: group_functions_by_name_space changes no record; refine_functions
\* changes reawrap_name only; dedupe_functions changes reawrap_name and the
\* name and optionality of arguments named wantmaster only, and a record
\* appended to the final table is at the end of the run as it was when it was
\* appended
C25_MutationConfined ==
    [][/\ GroupStep => functions' = functions
       /\ RefineStep =>
            /\ Len(functions') = Len(functions)
            /\ \A f \in 1..Len(functions) : OnlyNameChanged(functions[f], functions'[f])
       /\ DedupeStep =>
            /\ Len(functions') = Len(functions)
            /\ \A f \in 1..Len(functions) :
                OnlyNameAndWantMasterChanged(functions[f], functions'[f])
            /\ \A n \in 1..Len(refined) : \A k \in 1..Len(refined[n].functions) :
                AcceptedAsIn(AfterRecord(n, k), functions')]_vars

\* dedupe_functions changed a record before appending it, and appended another
\* record after it
C25_ChangedThenAppended ==
    /\ pc = "done"
    /\ \E n \in 1..Len(deduped) :
        /\ Len(deduped[n].functions) = 2
        /\ functions[deduped[n].functions[1]].reascript_name = "CountSelectedTracks2"
        /\ functions[deduped[n].functions[1]].arguments[2].name = "want_master"
        /\ functions[deduped[n].functions[2]].reascript_name = "GetSelectedTrack2"

(***************************************************************************)
(* Duplicate removal and the documentation filters (specification          *)
(* SpecMarkers)                                                            *)
(***************************************************************************)
\* the record at position i of the list is the first of the list with its
\* refine-stage name
FirstSeen(list, i) ==
    \A j \in 1..(i - 1) : functions[list[j]].reawrap_name # functions[list[i]].reawrap_name
\* the records of the list that computed the refine-stage name of the record
\* at position i
SameNameAs(list, i) ==
    {j \in 1..Len(list) : functions[list[j]].reawrap_name = functions[list[i]].reawrap_name}
\* the list of the table under the key, empty when the table has no such key
ListOf(table, key) == IF key \in dict_keys(table) THEN dict_get(table, key) ELSE <<>>

Pieces(text) == SelectSeq(str_split(text, ","), LAMBDA piece : str_strip(piece) # "")
\* the text of entry f before "reaper.", and the text between its parentheses
ReturnText(f) == str_split1(soup.functions_all[f].l_func, "reaper.")[1]
ArgumentText(f) ==
    SubSeq(soup.functions_all[f].l_func,
           str_find(soup.functions_all[f].l_func, "(") + 1,
           str_find(soup.functions_all[f].l_func, ")") - 1)

\* C23: parse_lua_function ends with a record that has one argument for every
\* piece of the argument list and one return value for every piece of the
\* return values, or with a ValueError, and with nothing else
C23_NeverSilent ==
    /\ pc = "error" => error = "ValueError"
    /\ Parsed =>
        \A f \in 1..Len(functions) :
            /\ Len(functions[f].arguments) = Len(Pieces(ArgumentText(f)))
            /\ Len(functions[f].return_values) = Len(Pieces(ReturnText(f)))

(***************************************************************************)
(* Properties of ReaType.default_value (specification SpecDefault)         *)
(***************************************************************************)
Reads == {i \in 1..Len(calls) : calls[i].op = "read"}
Assignments == {i \in 1..Len(calls) : calls[i].op = "assign"}
NoneBetween(ops, i, j) == \A k \in (i + 1)..(j - 1) : calls[k].op \notin ops
\* what the first read of a new object of this reascript_type returns
Computed(reascript_type) ==
    default_value(default_value_stored(ReaType(reascript_type, None, FALSE)))

\* C15: two reads with no assignment between them return the same string,
\* whatever happened to reascript_type in between; a read after the assignment
\* of a string returns that string; the first read after the assignment of None
\* returns what is computed from the reascript_type at the time of that read
C15_ComputedOnceAndCached ==
    /\ \A i \in Reads : \A j \in Reads :
        i < j /\ NoneBetween({"assign"}, i, j) => calls[j].value = calls[i].value
    /\ \A i \in Assignments : \A j \in Reads :
        i < j /\ NoneBetween({"assign"}, i, j) /\ calls[i].value # None
            => calls[j].value = calls[i].value
    /\ \A i \in Assignments : \A j \in Reads :
        i < j /\ NoneBetween({"assign", "read"}, i, j) /\ calls[i].value = None
            => calls[j].value = Computed(calls[j].self.reascript_type)

\* a read, then reascript_type changed to one with another computed default,
\* then a read that returns the string of the first read
C15_ReadAfterTypeChange ==
    \E i \in Reads : \E j \in Reads :
        /\ i < j
        /\ NoneBetween({"assign"}, i, j)
        /\ calls[i].self.default_value = None
        /\ calls[j].value = calls[i].value
        /\ Computed(calls[j].self.reascript_type) # calls[j].value

\* the literal of a type of the destination language
LiteralOf(type_) ==
    IF type_ = "boolean" THEN "false"
    ELSE IF type_ = "number" THEN "0"
    ELSE IF type_ = "string" THEN "\"\""
    ELSE "nil"

\* C16: a read that finds no stored value returns the literal of the lua_type
\* of the object: "false" for boolean, "0" for number, the empty string
\* literal for string, "nil" for every other type
C16_LiteralOfLuaType ==
    \A j \in Reads :
        calls[j].self.default_value = None => calls[j].value = LiteralOf(lua_type(calls[j].self))
====
